---- MODULE Spec2Model ----
(***************************************************************************)
(* Dream Weaver image tools (tools.py): generate_image and edit_image.     *)
(* Each invocation is a sequential process over the lines of its function; *)
(* the remote image service, the file system and the loaded configuration  *)
(* are the environment.  Every point of the code that can raise is a       *)
(* nondeterministic choice between its normal outcome and the exception.   *)
(***************************************************************************)
EXTENDS Integers, Sequences, FiniteSets, TLC

(***************************************************************************)
(* Bounds of the model                                                     *)
(***************************************************************************)
\* invocation slots of the model; the sequential specification runs slot 1
NumInvocations == 2
\* largest requested count n and largest number of images in a response
MaxImages == 2
\* largest number of source images passed to edit_image
MaxSources == 2
\* short prompts: every string over Chars of length 0..MaxShortLen
MaxShortLen == 2
\* long prompts: lengths PromptEchoLimit - Margin .. PromptEchoLimit + Margin
Margin == 1
\* creation timestamps the remote service may answer with: 1..MaxTimestamp
MaxTimestamp == 2

(***************************************************************************)
(* Program constants                                                       *)
(***************************************************************************)
\* prompt[:300] and len(prompt) > 300
PromptEchoLimit == 300
\* $ per 1,000,000 tokens
TextRate == 5
ImageRate == 10
OutputRate == 40
TokensPerUnit == 1000000
\* f"{x:.4f}": four decimals
CostScale == 10000

Invocations == 1..NumInvocations

(***************************************************************************)
(* Python values                                                           *)
(***************************************************************************)
\* a str is a sequence of characters; None is a value of its own kind
PyNone == [kind |-> "None", s |-> <<>>]
PyStr(chars) == [kind |-> "str", s |-> chars]

Whitespace == {" "}
Chars == {" ", "a"}

RECURSIVE LStrip(_)
LStrip(s) == IF s = <<>> THEN s
             ELSE IF Head(s) \in Whitespace THEN LStrip(Tail(s)) ELSE s

RECURSIVE RStrip(_)
RStrip(s) == IF s = <<>> THEN s
             ELSE IF s[Len(s)] \in Whitespace THEN RStrip(SubSeq(s, 1, Len(s) - 1)) ELSE s

\* str.strip()
Strip(s) == RStrip(LStrip(s))

\* truth value of a str or None: None and "" are false
Truthy(v) == v.kind = "str" /\ v.s # <<>>

\* s[:k]
SliceTo(s, k) == [j \in 1..(IF Len(s) < k THEN Len(s) ELSE k) |-> s[j]]

UpperChar(ch) ==
    CASE ch = "j" -> "J" [] ch = "p" -> "P" [] ch = "e" -> "E" [] ch = "g" -> "G"
      [] ch = "n" -> "N" [] ch = "w" -> "W" [] ch = "b" -> "B" [] OTHER -> ch

\* str.capitalize() in place of str.upper()
UpperFirstOnly(s) == [j \in 1..Len(s) |-> IF j = 1 THEN UpperChar(s[j]) ELSE s[j]]

\* str.upper()
Upper(s) == [j \in 1..Len(s) |-> UpperChar(s[j])]

\* dict.get(key): the value, or None when the key is absent
DictGet(d, key) == IF key \in DOMAIN d THEN d[key] ELSE PyNone

(***************************************************************************)
(* Exact arithmetic for the cost computation: a number is a fraction in    *)
(* lowest terms (the code computes in binary floating point; its rounding  *)
(* error, far below the printed precision, is not modelled).               *)
(***************************************************************************)
RECURSIVE GCD(_, _)
GCD(a, b) == IF b = 0 THEN a ELSE GCD(b, a % b)

Rat(num, den) == LET g == GCD(num, den)
                 IN  IF num = 0 THEN [num |-> 0, den |-> 1]
                     ELSE [num |-> num \div g, den |-> den \div g]

RInt(k) == [num |-> k, den |-> 1]
\* x / y, y # 0
RDiv(x, y) == Rat(x.num * y.den, x.den * y.num)
RMul(x, y) == LET g1 == GCD(x.num, y.den)
                  g2 == GCD(y.num, x.den)
                  a == IF x.num = 0 THEN 1 ELSE g1
                  b == IF y.num = 0 THEN 1 ELSE g2
              IN  Rat((x.num \div a) * (y.num \div b), (x.den \div b) * (y.den \div a))
RAdd(x, y) == LET g == GCD(x.den, y.den)
              IN  Rat(x.num * (y.den \div g) + y.num * (x.den \div g),
                      (x.den \div g) * y.den)

\* f"{x:.4f}": x printed to four decimals, as a count of 1/10000 units.  On an
\* exact decimal tie the digit printed depends on the binary double, so both
\* neighbours are given.
Fmt4(x) == LET q == (x.num * CostScale) \div x.den
               r == (x.num * CostScale) % x.den
           IN  IF 2 * r < x.den THEN {q}
               ELSE IF 2 * r > x.den THEN {q + 1}
               ELSE {q, q + 1}

(***************************************************************************)
(* Inputs                                                                  *)
(***************************************************************************)
SeqsUpTo(S, k) == UNION {[1..m -> S] : m \in 0..k}
Fill(ch, L) == [j \in 1..L |-> ch]

ShortPrompts == SeqsUpTo(Chars, MaxShortLen)
LongPrompts == {Fill("a", L) : L \in (PromptEchoLimit - Margin)..(PromptEchoLimit + Margin)}
Prompts == {PyNone} \cup {PyStr(s) : s \in ShortPrompts \cup LongPrompts}

Jpeg == <<"j", "p", "e", "g">>
Png == <<"p", "n", "g">>
Webp == <<"w", "e", "b", "p">>
OutputFormats == {Jpeg, Png, Webp}
Qualities == {"medium", "high"}
Sizes == {"auto", "1024x1024"}
Counts == 1..MaxImages

\* .env as loaded by dotenv_values: no key, an empty key, a key
EnvKey == "OPENAI_API_KEY"
Configs == {[k \in {} |-> PyNone],
            [k \in {EnvKey} |-> PyNone],
            [k \in {EnvKey} |-> PyStr(<<>>)],
            [k \in {EnvKey} |-> PyStr(<<"s", "k">>)]}

\* the m source paths of a list input
SourceList(m) == [j \in 1..m |-> IF j = 1 THEN "a.png" ELSE "b.png"]
NoFiles == [kind |-> "None", paths |-> <<>>]
ImageFileInputs ==
    {NoFiles}
    \cup {[kind |-> "str", paths |-> <<p>>] : p \in {"a.png"}}
    \cup {[kind |-> "list", paths |-> SourceList(m)] : m \in 0..MaxSources}
MaskInputs == {PyNone, PyStr(<<>>), PyStr(<<"m">>)}

(***************************************************************************)
(* The remote service's answers                                            *)
(***************************************************************************)
\* b64_json of the k-th image answered to invocation inv; decoding gives the bytes
Encoded(inv, k) == [b64 |-> TRUE, bytes |-> <<inv, k>>]
Corrupt == [b64 |-> FALSE, bytes |-> <<0, 0>>]

DataLists(inv) ==
    {[kind |-> "list",
      items |-> [k \in 1..m |-> IF k \in bad THEN Corrupt ELSE Encoded(inv, k)]] :
        m \in 0..MaxImages, bad \in {{}} \cup {{k} : k \in 1..MaxImages}}
NoData == [kind |-> "None", items |-> <<>>]

NoUsage == [kind |-> "None", text_tokens |-> 0, image_tokens |-> 0,
            output_tokens |-> 0, total_tokens |-> 0]
UsageOf(t, im, o) == [kind |-> "usage", text_tokens |-> t, image_tokens |-> im,
                      output_tokens |-> o, total_tokens |-> t + im + o]
Usages == {UsageOf(1000, 0, 2000), UsageOf(260, 320, 4160)}

Timestamps == 1..MaxTimestamp

NoResponse == [kind |-> "none", created |-> 0, data |-> NoData, usage |-> NoUsage]
Responses(inv) ==
    {[kind |-> "response", created |-> t, data |-> d, usage |-> u] :
        t \in Timestamps, d \in DataLists(inv) \cup {NoData}, u \in Usages \cup {NoUsage}}

(***************************************************************************)
(* State                                                                   *)
(***************************************************************************)
VARIABLES
    config,   \* tools.config: the loaded .env
    calls,    \* the invocations: arguments, locals, position, outcome
    dirs,     \* directories that exist
    files     \* the files on disk: path -> bytes

vars == <<config, calls, dirs, files>>

NoResult == [kind |-> "none", paths |-> <<>>, report |-> [kind |-> "none"]]
Zero == RInt(0)

Idle ==
    [pc |-> "idle", op |-> "none",
     prompt |-> PyNone, n |-> 1, output_format |-> Jpeg, quality |-> "medium",
     size |-> "auto", image_files |-> NoFiles, mask_file |-> PyNone,
     opened |-> <<>>, images |-> <<>>, image_count |-> 0, mask |-> 0,
     response |-> NoResponse, extension |-> <<>>, image_paths |-> <<>>, i |-> 0,
     remote_calls |-> 0, exc |-> "", failed |-> FALSE, escaped |-> FALSE,
     input_cost |-> Zero, output_cost |-> Zero, total_cost |-> Zero,
     result |-> NoResult]

Init ==
    /\ config \in Configs
    /\ calls = [inv \in Invocations |-> Idle]
    /\ dirs = {}
    /\ files = [p \in {} |-> <<0, 0>>]

Set(inv, c) == calls' = [calls EXCEPT ![inv] = c]

(***************************************************************************)
(* Control flow shared by the two functions                                *)
(***************************************************************************)
\* the exceptions the code's operations raise; all derive from Exception
Exceptions == {"AttributeError", "TypeError", "IndexError", "OSError",
               "APIError", "binascii.Error", "ZeroDivisionError"}

\* an exception raised inside the try block: control moves to the handler
Raise(c, e) == [c EXCEPT !.pc = "except", !.exc = e, !.failed = TRUE]

\* return paths, report
Return(c, paths, report) ==
    [c EXCEPT !.pc = "done",
              !.result = [kind |-> "return", paths |-> paths, report |-> report]]

\* return [], "Error: ..." of the input validation
Reject(c, message) ==
    Return([c EXCEPT !.failed = TRUE], <<>>, [kind |-> "error", message |-> message])

\* a handler that catches the remote service's errors only
CatchesApiErrorsOnly(e) == e = "APIError"

\* except Exception as e
Catches(e) == e \in Exceptions

\* the handler: return [], error_info
Handle(c, title) ==
    IF Catches(c.exc)
    THEN Return(c, <<>>, [kind |-> "failed", title |-> title, error |-> c.exc])
    ELSE [c EXCEPT !.pc = "done", !.escaped = TRUE]

\* os.path.join("generated_images", filename)
OutputDir == "generated_images"
PathJoin(dir, filename) == <<dir, filename>>

\* base64.b64decode
B64Valid(image_data) == image_data.b64
B64Decode(image_data) == image_data.bytes

\* with open(filepath, "wb") as f: f.write(image_bytes)
WriteFile(fs, filepath, bytes) ==
    [p \in DOMAIN fs \cup {filepath} |-> IF p = filepath THEN bytes ELSE fs[p]]
\* what a write that failed midway leaves in the file
Truncated == <<0, 0>>

\* datetime.fromtimestamp(t).strftime('%Y-%m-%d %H:%M:%S')
LocalTime(t) == <<"local time of", t>>

\* the marker added from 300 characters on (>= in place of >)
PromptEchoInclusive(prompt) ==
    SliceTo(prompt, PromptEchoLimit)
        \o (IF Len(prompt) >= PromptEchoLimit THEN <<".", ".", ".">> ELSE <<>>)

\* "{prompt[:300]}{'...' if len(prompt) > 300 else ''}"
Ellipsis == <<".", ".", ".">>
PromptEcho(prompt) ==
    SliceTo(prompt, PromptEchoLimit)
        \o (IF Len(prompt) > PromptEchoLimit THEN Ellipsis ELSE <<>>)

\* (tokens / 1_000_000) * rate
TokenCost(tokens, rate) == RMul(RDiv(RInt(tokens), RInt(TokensPerUnit)), RInt(rate))

(***************************************************************************)
(* generate_image                                                          *)
(***************************************************************************)
\* a caller invokes generate_image(prompt, n=..., output_format=..., ...)
CallGenerate(inv) ==
    /\ calls[inv].pc = "idle"
    /\ \E p \in Prompts, k \in Counts, f \in OutputFormats, q \in Qualities, z \in Sizes :
          Set(inv, [Idle EXCEPT !.pc = "validate", !.op = "generate", !.prompt = p,
                                !.n = k, !.output_format = f, !.quality = q, !.size = z])
    /\ UNCHANGED <<config, dirs, files>>

\* the prompt tested without strip(): if not prompt
GenValidatedNoStrip(c) ==
    IF c.prompt.kind = "None" THEN Reject(c, "Prompt cannot be empty.")
    ELSE IF c.prompt.s = <<>> THEN Reject(c, "Prompt cannot be empty.")
    ELSE IF ~Truthy(DictGet(config, EnvKey))
         THEN Reject(c, "OpenAI API key not found in environment variables.")
    ELSE [c EXCEPT !.pc = "remote"]

\* if not prompt.strip(): return ...; if not api_key: return ...
GenValidated(c) ==
    IF c.prompt.kind = "None" THEN Raise(c, "AttributeError")
    ELSE IF Strip(c.prompt.s) = <<>> THEN Reject(c, "Prompt cannot be empty.")
    ELSE IF ~Truthy(DictGet(config, EnvKey))
         THEN Reject(c, "OpenAI API key not found in environment variables.")
    ELSE [c EXCEPT !.pc = "remote"]

GenValidate(inv) ==
    /\ calls[inv].pc = "validate" /\ calls[inv].op = "generate"
    /\ Set(inv, GenValidated(calls[inv]))
    /\ UNCHANGED <<config, dirs, files>>

\* a failed call tried once more before the error is raised
GenRemoteRetries(inv) ==
    LET c == calls[inv] IN
    /\ c.pc = "remote" /\ c.op = "generate"
    /\ \/ /\ c.remote_calls < 1
          /\ Set(inv, [c EXCEPT !.remote_calls = @ + 1])
       \/ /\ c.remote_calls >= 1
          /\ Set(inv, Raise([c EXCEPT !.remote_calls = @ + 1], "APIError"))
       \/ \E r \in Responses(inv) :
             Set(inv, [c EXCEPT !.remote_calls = @ + 1, !.response = r, !.pc = "makedirs"])
    /\ UNCHANGED <<config, dirs, files>>

\* client.images.generate(...): the service answers, or the call raises
GenRemote(inv) ==
    LET c == calls[inv] IN
    /\ c.pc = "remote" /\ c.op = "generate"
    /\ \/ Set(inv, Raise([c EXCEPT !.remote_calls = @ + 1], "APIError"))
       \/ \E r \in Responses(inv) :
             Set(inv, [c EXCEPT !.remote_calls = @ + 1, !.response = r, !.pc = "makedirs"])
    /\ UNCHANGED <<config, dirs, files>>

\* "jpg" if output_format == "jpeg" else output_format
Extension(output_format) == IF output_format = Jpeg THEN <<"j", "p", "g">> ELSE output_format

\* os.makedirs("generated_images", exist_ok=True); extension = ...; image_paths = []
GenMakedirs(inv) ==
    LET c == calls[inv] IN
    /\ c.pc = "makedirs" /\ c.op = "generate"
    /\ \/ /\ Set(inv, Raise(c, "OSError"))
          /\ UNCHANGED dirs
       \/ /\ dirs' = dirs \cup {OutputDir}
          /\ Set(inv, [c EXCEPT !.extension = Extension(c.output_format),
                                !.image_paths = <<>>, !.i = 0, !.pc = "save"])
    /\ UNCHANGED <<config, files>>

\* the enumerate index used as it is: {i} in place of {i+1}
GeneratedNameZeroBased(created_timestamp, i, extension) ==
    <<"generated_", created_timestamp, "_", i, ".", extension>>

\* f"generated_{created_timestamp}_{i+1}.{extension}"
GeneratedName(created_timestamp, i, extension) ==
    <<"generated_", created_timestamp, "_", i + 1, ".", extension>>

\* image_paths = [filepath] in place of image_paths.append(filepath)
SaveImageKeepLast(inv, filename) ==
    LET c == calls[inv]
        image_data == c.response.data.items[c.i + 1]
        filepath == PathJoin(OutputDir, filename)
    IN  \/ /\ ~B64Valid(image_data)
           /\ Set(inv, Raise(c, "binascii.Error"))
           /\ UNCHANGED files
        \/ /\ B64Valid(image_data)
           /\ files' = WriteFile(files, filepath, B64Decode(image_data))
           /\ Set(inv, [c EXCEPT !.image_paths = <<filepath>>, !.i = @ + 1])

\* one turn of the loop over enumerate(response.data): decode, write, append
SaveImage(inv, filename) ==
    LET c == calls[inv]
        image_data == c.response.data.items[c.i + 1]
        filepath == PathJoin(OutputDir, filename)
    IN  \/ /\ ~B64Valid(image_data)
           /\ Set(inv, Raise(c, "binascii.Error"))
           /\ UNCHANGED files
        \/ /\ B64Valid(image_data)
           /\ Set(inv, Raise(c, "OSError"))
           /\ \/ UNCHANGED files
              \/ files' = WriteFile(files, filepath, Truncated)
        \/ /\ B64Valid(image_data)
           /\ files' = WriteFile(files, filepath, B64Decode(image_data))
           /\ Set(inv, [c EXCEPT !.image_paths = Append(@, filepath), !.i = @ + 1])

GenSave(inv) ==
    LET c == calls[inv] IN
    /\ c.pc = "save" /\ c.op = "generate"
    /\ IF c.response.data.kind = "None"
       THEN Set(inv, Raise(c, "TypeError")) /\ UNCHANGED files
       ELSE IF c.i < Len(c.response.data.items)
       THEN SaveImage(inv, GeneratedName(c.response.created, c.i, c.extension))
       ELSE Set(inv, [c EXCEPT !.pc = "report"]) /\ UNCHANGED files
    /\ UNCHANGED <<config, dirs>>

\* input_cost = (text_tokens / 1_000_000) * 5.00
GenInputCost(usage) == TokenCost(usage.text_tokens, TextRate)
\* output_cost = (usage.output_tokens / 1_000_000) * 40.00
OutputCost(usage) == TokenCost(usage.output_tokens, OutputRate)

\* the costs and the markdown report of a successful generation
GenReported(c) ==
    LET usage == c.response.usage
        input_cost == GenInputCost(usage)
        output_cost == OutputCost(usage)
        total_cost == RAdd(input_cost, output_cost)
        d == [c EXCEPT !.input_cost = input_cost, !.output_cost = output_cost,
                       !.total_cost = total_cost]
    IN  IF usage.kind = "None" THEN Raise(c, "AttributeError")
        ELSE IF Len(c.image_paths) = 0 THEN Raise(d, "ZeroDivisionError")
        ELSE Return(d, c.image_paths,
                [kind |-> "success",
                 images_created |-> Len(c.image_paths),
                 quality |-> c.quality,
                 size |-> c.size,
                 format |-> Upper(c.output_format),
                 created |-> LocalTime(c.response.created),
                 text_tokens |-> usage.text_tokens,
                 image_tokens |-> usage.image_tokens,
                 output_tokens |-> usage.output_tokens,
                 total_tokens |-> usage.total_tokens,
                 input_cost |-> Fmt4(input_cost),
                 output_cost |-> Fmt4(output_cost),
                 total_cost |-> Fmt4(total_cost),
                 cost_per_image |-> Fmt4(RDiv(total_cost, RInt(Len(c.image_paths)))),
                 prompt |-> PromptEcho(c.prompt.s)])

GenReport(inv) ==
    /\ calls[inv].pc = "report" /\ calls[inv].op = "generate"
    /\ Set(inv, GenReported(calls[inv]))
    /\ UNCHANGED <<config, dirs, files>>

\* a handler that deletes the images saved so far before it returns
GenExceptRemovesFiles(inv) ==
    LET c == calls[inv]
        saved == {c.image_paths[k] : k \in 1..Len(c.image_paths)}
    IN
    /\ c.pc = "except" /\ c.op = "generate"
    /\ Set(inv, Handle(c, "Generation Failed"))
    /\ files' = [p \in DOMAIN files \ saved |-> files[p]]
    /\ UNCHANGED <<config, dirs>>

\* except Exception as e: return [], error_info
GenExcept(inv) ==
    /\ calls[inv].pc = "except" /\ calls[inv].op = "generate"
    /\ Set(inv, Handle(calls[inv], "Generation Failed"))
    /\ UNCHANGED <<config, dirs, files>>

Generate(inv) ==
    \/ CallGenerate(inv)
    \/ GenValidate(inv)
    \/ GenRemote(inv)
    \/ GenMakedirs(inv)
    \/ GenSave(inv)
    \/ GenReport(inv)
    \/ GenExcept(inv)

(***************************************************************************)
(* edit_image                                                              *)
(***************************************************************************)
\* a caller invokes edit_image(image_files, prompt, mask_file=..., n=..., ...)
CallEdit(inv) ==
    /\ calls[inv].pc = "idle"
    /\ \E fs \in ImageFileInputs, p \in Prompts, m \in MaskInputs, k \in Counts,
          q \in Qualities, z \in Sizes :
          Set(inv, [Idle EXCEPT !.pc = "validate", !.op = "edit", !.image_files = fs,
                                !.prompt = p, !.mask_file = m, !.n = k,
                                !.quality = q, !.size = z])
    /\ UNCHANGED <<config, dirs, files>>

\* the validation without its credential test
EditValidatedNoKeyTest(c) ==
    IF c.image_files.kind = "None" THEN Reject(c, "Please upload at least one image file.")
    ELSE IF c.prompt.kind = "None" THEN Raise(c, "AttributeError")
    ELSE IF Strip(c.prompt.s) = <<>> THEN Reject(c, "Edit prompt cannot be empty.")
    ELSE [c EXCEPT !.pc = "open"]

\* if image_files is None: ...; if not prompt.strip(): ...; if not api_key: ...
EditValidated(c) ==
    IF c.image_files.kind = "None" THEN Reject(c, "Please upload at least one image file.")
    ELSE IF c.prompt.kind = "None" THEN Raise(c, "AttributeError")
    ELSE IF Strip(c.prompt.s) = <<>> THEN Reject(c, "Edit prompt cannot be empty.")
    ELSE IF ~Truthy(DictGet(config, EnvKey))
         THEN Reject(c, "OpenAI API key not found in environment variables.")
    ELSE [c EXCEPT !.pc = "open"]

EditValidate(inv) ==
    /\ calls[inv].pc = "validate" /\ calls[inv].op = "edit"
    /\ Set(inv, EditValidated(calls[inv]))
    /\ UNCHANGED <<config, dirs, files>>

\* open(path, "rb"): a new open stream
Stream(path) == [path |-> path, closed |-> FALSE]
\* f.close()
Closed(stream) == [stream EXCEPT !.closed = TRUE]

\* images = [open(image_files, "rb")], or [open(p, "rb") for p in image_files]: one
\* open per step; the list is bound to images once every open has succeeded
EditOpen(inv) ==
    LET c == calls[inv]
        paths == c.image_files.paths
        k == Len(c.opened)
    IN
    /\ c.pc = "open" /\ c.op = "edit"
    /\ IF k < Len(paths)
       THEN \/ Set(inv, Raise(c, "OSError"))
            \/ Set(inv, [c EXCEPT !.opened = Append(@, Stream(paths[k + 1]))])
       ELSE Set(inv, [c EXCEPT !.images = [j \in 1..k |-> j], !.image_count = k,
                               !.pc = "params"])
    /\ UNCHANGED <<config, dirs, files>>

\* "image": images, whatever their number
EditParamsPassList(inv) ==
    /\ calls[inv].pc = "params" /\ calls[inv].op = "edit"
    /\ Set(inv, [calls[inv] EXCEPT !.pc = "mask"])
    /\ UNCHANGED <<config, dirs, files>>

\* "image": images if image_count > 1 else images[0]
EditParams(inv) ==
    LET c == calls[inv] IN
    /\ c.pc = "params" /\ c.op = "edit"
    /\ IF c.image_count > 1 \/ Len(c.images) >= 1
       THEN Set(inv, [c EXCEPT !.pc = "mask"])
       ELSE Set(inv, Raise(c, "IndexError"))
    /\ UNCHANGED <<config, dirs, files>>

\* if mask_file: edit_params["mask"] = open(mask_file, "rb")
EditMask(inv) ==
    LET c == calls[inv] IN
    /\ c.pc = "mask" /\ c.op = "edit"
    /\ IF Truthy(c.mask_file)
       THEN \/ Set(inv, Raise(c, "OSError"))
            \/ Set(inv, [c EXCEPT !.opened = Append(@, Stream("mask")),
                                  !.mask = Len(c.opened) + 1, !.pc = "remote"])
       ELSE Set(inv, [c EXCEPT !.pc = "remote"])
    /\ UNCHANGED <<config, dirs, files>>

\* client.images.edit(**edit_params): the service answers, or the call raises
EditRemote(inv) ==
    LET c == calls[inv] IN
    /\ c.pc = "remote" /\ c.op = "edit"
    /\ \/ Set(inv, Raise([c EXCEPT !.remote_calls = @ + 1], "APIError"))
       \/ \E r \in Responses(inv) :
             Set(inv, [c EXCEPT !.remote_calls = @ + 1, !.response = r, !.pc = "close"])
    /\ UNCHANGED <<config, dirs, files>>

\* for img in images: img.close(); if mask_file: edit_params["mask"].close()
CloseAll(c) ==
    [j \in 1..Len(c.opened) |->
        IF (\E m \in 1..Len(c.images) : c.images[m] = j) \/ (Truthy(c.mask_file) /\ c.mask = j)
        THEN Closed(c.opened[j]) ELSE c.opened[j]]

EditClose(inv) ==
    LET c == calls[inv] IN
    /\ c.pc = "close" /\ c.op = "edit"
    /\ Set(inv, [c EXCEPT !.opened = CloseAll(c), !.pc = "makedirs"])
    /\ UNCHANGED <<config, dirs, files>>

\* os.makedirs("generated_images", exist_ok=True); image_paths = []
EditMakedirs(inv) ==
    LET c == calls[inv] IN
    /\ c.pc = "makedirs" /\ c.op = "edit"
    /\ \/ /\ Set(inv, Raise(c, "OSError"))
          /\ UNCHANGED dirs
       \/ /\ dirs' = dirs \cup {OutputDir}
          /\ Set(inv, [c EXCEPT !.image_paths = <<>>, !.i = 0, !.pc = "save"])
    /\ UNCHANGED <<config, files>>

\* f"edited_{created_timestamp}_{i+1}.png"
EditedName(created_timestamp, i) == <<"edited_", created_timestamp, "_", i + 1, ".png">>

EditSave(inv) ==
    LET c == calls[inv] IN
    /\ c.pc = "save" /\ c.op = "edit"
    /\ IF c.response.data.kind = "None"
       THEN Set(inv, Raise(c, "TypeError")) /\ UNCHANGED files
       ELSE IF c.i < Len(c.response.data.items)
       THEN SaveImage(inv, EditedName(c.response.created, c.i))
       ELSE Set(inv, [c EXCEPT !.pc = "report"]) /\ UNCHANGED files
    /\ UNCHANGED <<config, dirs>>

\* the generation formula reused: the input images' tokens left out
EditInputCostTextOnly(usage) == TokenCost(usage.text_tokens, TextRate)

\* input_cost = (text_tokens / 1_000_000) * 5.00 + (image_tokens / 1_000_000) * 10.00
EditInputCost(usage) ==
    RAdd(TokenCost(usage.text_tokens, TextRate), TokenCost(usage.image_tokens, ImageRate))

\* the costs and the markdown report of a successful edit
EditReported(c) ==
    LET usage == c.response.usage
        input_cost == EditInputCost(usage)
        output_cost == OutputCost(usage)
        total_cost == RAdd(input_cost, output_cost)
        d == [c EXCEPT !.input_cost = input_cost, !.output_cost = output_cost,
                       !.total_cost = total_cost]
    IN  IF usage.kind = "None" THEN Raise(c, "AttributeError")
        ELSE IF Len(c.image_paths) = 0 THEN Raise(d, "ZeroDivisionError")
        ELSE Return(d, c.image_paths,
                [kind |-> "success",
                 input_images |-> c.image_count,
                 output_images |-> Len(c.image_paths),
                 quality |-> c.quality,
                 size |-> c.size,
                 mask_applied |-> Truthy(c.mask_file),
                 created |-> LocalTime(c.response.created),
                 text_tokens |-> usage.text_tokens,
                 image_tokens |-> usage.image_tokens,
                 output_tokens |-> usage.output_tokens,
                 total_tokens |-> usage.total_tokens,
                 input_cost |-> Fmt4(input_cost),
                 output_cost |-> Fmt4(output_cost),
                 total_cost |-> Fmt4(total_cost),
                 cost_per_image |-> Fmt4(RDiv(total_cost, RInt(Len(c.image_paths)))),
                 prompt |-> PromptEcho(c.prompt.s)])

EditReport(inv) ==
    /\ calls[inv].pc = "report" /\ calls[inv].op = "edit"
    /\ Set(inv, EditReported(calls[inv]))
    /\ UNCHANGED <<config, dirs, files>>

\* except Exception as e: return [], error_info
EditExcept(inv) ==
    /\ calls[inv].pc = "except" /\ calls[inv].op = "edit"
    /\ Set(inv, Handle(calls[inv], "Edit Failed"))
    /\ UNCHANGED <<config, dirs, files>>

Edit(inv) ==
    \/ CallEdit(inv)
    \/ EditValidate(inv)
    \/ EditOpen(inv)
    \/ EditParams(inv)
    \/ EditMask(inv)
    \/ EditRemote(inv)
    \/ EditClose(inv)
    \/ EditMakedirs(inv)
    \/ EditSave(inv)
    \/ EditReport(inv)
    \/ EditExcept(inv)

(***************************************************************************)
(* One caller, one invocation at a time                                    *)
(***************************************************************************)
Next == Generate(1) \/ Edit(1)

Spec == Init /\ [][Next]_vars

(***************************************************************************)
(* Several callers at once: the interface serves each request on a thread  *)
(* of its own, so invocations interleave line by line and share only the   *)
(* configuration and the disk.  The requests are well-formed and the       *)
(* service answers them with well-formed responses.                        *)
(***************************************************************************)
InitConcurrent ==
    /\ config = [k \in {EnvKey} |-> PyStr(<<"s", "k">>)]
    /\ calls = [inv \in Invocations |-> Idle]
    /\ dirs = {}
    /\ files = [p \in {} |-> <<0, 0>>]

\* a user submits the generation form
SubmitGenerate(inv) ==
    /\ calls[inv].pc = "idle"
    /\ \E f \in {Jpeg, Png} :
          Set(inv, [Idle EXCEPT !.pc = "validate", !.op = "generate",
                                !.prompt = PyStr(<<"a">>), !.output_format = f])
    /\ UNCHANGED <<config, dirs, files>>

\* a user submits the edit form with one image and no mask
SubmitEdit(inv) ==
    /\ calls[inv].pc = "idle"
    /\ Set(inv, [Idle EXCEPT !.pc = "validate", !.op = "edit",
                             !.prompt = PyStr(<<"a">>),
                             !.image_files = [kind |-> "str", paths |-> <<"a.png">>]])
    /\ UNCHANGED <<config, dirs, files>>

\* the responses considered: a usage record and a list of decodable images
WellFormed(response) ==
    response.kind = "response" =>
        /\ response.usage = UsageOf(1000, 0, 2000)
        /\ response.data.kind = "list"
        /\ \A k \in 1..Len(response.data.items) : response.data.items[k].b64

NextConcurrent ==
    \E inv \in Invocations :
        \/ SubmitGenerate(inv)
        \/ GenValidate(inv)
        \/ GenRemote(inv) /\ WellFormed(calls'[inv].response)
        \/ GenMakedirs(inv)
        \/ GenSave(inv)
        \/ GenReport(inv)
        \/ GenExcept(inv)
        \/ SubmitEdit(inv)
        \/ EditValidate(inv)
        \/ EditOpen(inv)
        \/ EditParams(inv)
        \/ EditMask(inv)
        \/ EditRemote(inv) /\ WellFormed(calls'[inv].response)
        \/ EditClose(inv)
        \/ EditMakedirs(inv)
        \/ EditSave(inv)
        \/ EditReport(inv)
        \/ EditExcept(inv)

SpecConcurrent == InitConcurrent /\ [][NextConcurrent]_vars

(***************************************************************************)
(* Properties                                                              *)
(***************************************************************************)
Returned(c) == c.pc = "done" /\ c.result.kind = "return"
Succeeded(c) == Returned(c) /\ c.result.report.kind = "success"
\* the result is ([], error-report)
EmptyWithError(c) ==
    /\ c.result.kind = "return"
    /\ c.result.paths = <<>>
    /\ c.result.report.kind \in {"error", "failed"}
\* the loaded configuration holds a non-empty credential
ValidKey == EnvKey \in DOMAIN config /\ config[EnvKey].kind = "str"
            /\ Len(config[EnvKey].s) > 0

\* C1: generate_image and edit_image never raise to the caller.  When an
\* invocation ends it has returned a pair (paths, report) and no exception
\* has escaped; and whenever a failure occurred in it (a rejected input, a
\* missing credential, any exception raised in the try block) the returned
\* paths list is empty.
C1_NeverRaises ==
    \A inv \in Invocations :
        LET c == calls[inv] IN
        c.pc = "done" =>
              /\ ~c.escaped
              /\ c.result.kind = "return"
              /\ c.failed => c.result.paths = <<>>

\* a write failed after one image had been saved, and the call returned []
C1_Witness ==
    \E inv \in Invocations :
        LET c == calls[inv] IN
        /\ Returned(c) /\ c.exc = "OSError"
        /\ Len(c.image_paths) = 1
        /\ c.result.paths = <<>>
        /\ c.result.report.kind = "failed"

\* C2: a prompt that is empty or holds only whitespace always yields
\* ([], error-report), in generate_image and in edit_image, and the remote
\* service is not invoked in that invocation.
OnlyWhitespace(v) == v.kind = "str" /\ \A j \in 1..Len(v.s) : v.s[j] = " "

C2_EmptyPromptRejected ==
    \A inv \in Invocations :
        LET c == calls[inv] IN
        (c.pc # "idle" /\ OnlyWhitespace(c.prompt)) =>
            /\ c.remote_calls = 0
            /\ c.pc = "done" => EmptyWithError(c)

\* generate_image("  ") with the credential present has returned
C2_Witness ==
    \E inv \in Invocations :
        LET c == calls[inv] IN
        /\ ValidKey /\ c.op = "generate" /\ Returned(c)
        /\ c.prompt = PyStr(<<" ", " ">>)
        /\ c.remote_calls = 0 /\ c.result.paths = <<>>

\* C3: with the credential absent from the loaded configuration, or empty,
\* every invocation of generate_image and of edit_image yields
\* ([], error-report) and does not invoke the remote service.
C3_MissingKeyRejected ==
    ~ValidKey =>
        \A inv \in Invocations :
            LET c == calls[inv] IN
            /\ c.remote_calls = 0
            /\ c.pc = "done" => EmptyWithError(c)

\* edit_image(["a.png", "b.png"], "a") has returned, no key in the configuration
C3_Witness ==
    /\ EnvKey \notin DOMAIN config
    /\ \E inv \in Invocations :
        LET c == calls[inv] IN
        /\ c.op = "edit" /\ Returned(c)
        /\ c.image_files.kind = "list" /\ Len(c.image_files.paths) = 2
        /\ c.prompt = PyStr(<<"a">>)
        /\ c.result.report.kind = "error"

\* C4: edit_image with no source images (image_files None, or an empty
\* sequence) yields ([], error-report) and does not invoke the remote edit
\* endpoint, also when the prompt is non-empty and the credential present.
NoSourceImages(c) ==
    c.op = "edit" /\ (c.image_files.kind = "None"
                      \/ (c.image_files.kind = "list" /\ Len(c.image_files.paths) = 0))

C4_NoImagesRejected ==
    \A inv \in Invocations :
        LET c == calls[inv] IN
        NoSourceImages(c) =>
            /\ c.remote_calls = 0
            /\ c.pc = "done" => EmptyWithError(c)

\* edit_image([], "a") with the credential present has returned
C4_Witness ==
    \E inv \in Invocations :
        LET c == calls[inv] IN
        /\ ValidKey /\ Returned(c) /\ c.op = "edit"
        /\ c.image_files.kind = "list" /\ c.image_files.paths = <<>>
        /\ c.prompt = PyStr(<<"a">>)
        /\ c.result.paths = <<>>

\* C5 as stated: a successful generate_image call returns a list of saved
\* paths whose length is the requested count n, whatever the response.
C5_LengthIsRequestedCount ==
    \A inv \in Invocations :
        LET c == calls[inv] IN
        (Succeeded(c) /\ c.op = "generate") => Len(c.result.paths) = c.n

\* C5 amended: a successful generate_image call returns one saved path per
\* image of the response: the list's length is the number of images the
\* response holds (at least one), which is n when the service answers with
\* n images.
C5_LengthIsResponseCount ==
    \A inv \in Invocations :
        LET c == calls[inv] IN
        (Succeeded(c) /\ c.op = "generate") =>
            /\ Len(c.result.paths) = Len(c.response.data.items)
            /\ Len(c.result.paths) >= 1
            /\ Len(c.response.data.items) = c.n => Len(c.result.paths) = c.n

\* generate_image(n=2) answered with two images has returned two paths
C5_Witness ==
    \E inv \in Invocations :
        LET c == calls[inv] IN
        /\ Succeeded(c) /\ c.op = "generate"
        /\ c.n = 2 /\ Len(c.response.data.items) = 2
        /\ Len(c.result.paths) = 2

\* C6: output files are named by response timestamp and 1-based position.
\* The k-th image of a generation response created at t is saved as
\* generated_images/generated_{t}_{k}.{ext}, ext being jpg for jpeg, png for
\* png and webp for webp; the k-th image of an edit response is saved as
\* generated_images/edited_{t}_{k}.png; and the returned list holds these
\* paths in response order.
ExtensionFor(format) ==
    CASE format = <<"j", "p", "e", "g">> -> <<"j", "p", "g">>
      [] format = <<"p", "n", "g">> -> <<"p", "n", "g">>
      [] format = <<"w", "e", "b", "p">> -> <<"w", "e", "b", "p">>

ExpectedPath(c, k) ==
    IF c.op = "generate"
    THEN <<"generated_images",
           <<"generated_", c.response.created, "_", k, ".", ExtensionFor(c.output_format)>>>>
    ELSE <<"generated_images", <<"edited_", c.response.created, "_", k, ".png">>>>

C6_FileNames ==
    \A inv \in Invocations :
        LET c == calls[inv] IN
        Succeeded(c) =>
            /\ Len(c.result.paths) = Len(c.response.data.items)
            /\ \A k \in 1..Len(c.result.paths) :
                  /\ c.result.paths[k] = ExpectedPath(c, k)
                  /\ c.result.paths[k] \in DOMAIN files
                  /\ files[c.result.paths[k]] = c.response.data.items[k].bytes

\* a jpeg generation of two images has returned its two paths
C6_Witness ==
    \E inv \in Invocations :
        LET c == calls[inv] IN
        /\ Succeeded(c) /\ c.op = "generate" /\ c.output_format = Jpeg
        /\ c.response.created = 2
        /\ Len(c.result.paths) = 2
        /\ c.result.paths[2] =
              <<"generated_images", <<"generated_", 2, "_", 2, ".", <<"j", "p", "g">>>>>>

\* C7: the cost is a function of the usage record at the published rates.
\* generate_image: input = text_tokens x 5 / 1,000,000 (image tokens count for
\* nothing); edit_image: input = text_tokens x 5 / 1,000,000 + image_tokens x
\* 10 / 1,000,000; both: output = output_tokens x 40 / 1,000,000, total =
\* input + output, per image = total / number of images; the report prints
\* each to four decimals.  text_tokens = 1000 and output_tokens = 2000 give
\* input 0.005, output 0.08 and total 0.085 for a generation.
InputMicro(c) ==
    IF c.op = "generate" THEN c.response.usage.text_tokens * 5
    ELSE c.response.usage.text_tokens * 5 + c.response.usage.image_tokens * 10
OutputMicro(c) == c.response.usage.output_tokens * 40

C7_Cost ==
    \A inv \in Invocations :
        LET c == calls[inv]
            r == c.result.report
            count == Len(c.result.paths)
        IN
        Succeeded(c) =>
            /\ c.input_cost = Rat(InputMicro(c), 1000000)
            /\ c.output_cost = Rat(OutputMicro(c), 1000000)
            /\ c.total_cost = Rat(InputMicro(c) + OutputMicro(c), 1000000)
            /\ r.input_cost = Fmt4(c.input_cost)
            /\ r.output_cost = Fmt4(c.output_cost)
            /\ r.total_cost = Fmt4(c.total_cost)
            /\ r.cost_per_image =
                  Fmt4(Rat(InputMicro(c) + OutputMicro(c), 1000000 * count))
            /\ (c.op = "generate" /\ c.response.usage.text_tokens = 1000
                  /\ c.response.usage.output_tokens = 2000) =>
                  /\ c.input_cost = [num |-> 1, den |-> 200]
                  /\ c.output_cost = [num |-> 2, den |-> 25]
                  /\ c.total_cost = [num |-> 17, den |-> 200]
                  /\ r.total_cost = {850}

\* an edit with 260 text, 320 image and 4160 output tokens: 0.0013 + 0.0032
\* input, 0.1664 output, 0.1709 in all, 0.08545 for each of its two images
C7_Witness ==
    \E inv \in Invocations :
        LET c == calls[inv] IN
        /\ Succeeded(c) /\ c.op = "edit"
        /\ c.response.usage.text_tokens = 260
        /\ c.response.usage.image_tokens = 320
        /\ c.response.usage.output_tokens = 4160
        /\ Len(c.result.paths) = 2
        /\ c.result.report.input_cost = {45}
        /\ c.result.report.output_cost = {1664}
        /\ c.result.report.total_cost = {1709}
        /\ c.result.report.cost_per_image = {854, 855}

\* C8 as stated: the report of a successful generate_image call contains the
\* requested quality, size and output format values verbatim.
C8_FormatVerbatim ==
    \A inv \in Invocations :
        LET c == calls[inv] IN
        (Succeeded(c) /\ c.op = "generate") =>
            /\ c.result.report.quality = c.quality
            /\ c.result.report.size = c.size
            /\ c.result.report.format = c.output_format

\* C8 amended: the report of a successful generate_image call contains the
\* requested quality and size verbatim, and the requested output format in
\* upper case (JPEG, PNG, WEBP).
UpperCaseName(format) ==
    CASE format = <<"j", "p", "e", "g">> -> <<"J", "P", "E", "G">>
      [] format = <<"p", "n", "g">> -> <<"P", "N", "G">>
      [] format = <<"w", "e", "b", "p">> -> <<"W", "E", "B", "P">>

C8_FormatUpperCase ==
    \A inv \in Invocations :
        LET c == calls[inv] IN
        (Succeeded(c) /\ c.op = "generate") =>
            /\ c.result.report.quality = c.quality
            /\ c.result.report.size = c.size
            /\ c.result.report.format = UpperCaseName(c.output_format)

\* generate_image(output_format="webp", quality="high", size="1024x1024") succeeded
C8_Witness ==
    \E inv \in Invocations :
        LET c == calls[inv] IN
        /\ Succeeded(c) /\ c.op = "generate"
        /\ c.output_format = Webp /\ c.quality = "high" /\ c.size = "1024x1024"
        /\ c.result.report.format = <<"W", "E", "B", "P">>

\* C9: in the success report of generate_image and of edit_image the echoed
\* prompt is the prompt unchanged when it has at most 300 characters, and its
\* first 300 characters followed by '...' when it has more.
C9_PromptEcho ==
    \A inv \in Invocations :
        LET c == calls[inv]
            p == c.prompt.s
            e == c.result.report.prompt
        IN
        Succeeded(c) =>
            /\ Len(p) <= 300 => e = p
            /\ Len(p) > 300 =>
                  /\ Len(e) = 303
                  /\ \A j \in 1..300 : e[j] = p[j]
                  /\ \A j \in 301..303 : e[j] = "."

\* a prompt of 301 characters was echoed by a successful edit_image
C9_Witness ==
    \E inv \in Invocations :
        LET c == calls[inv] IN
        /\ Succeeded(c) /\ c.op = "edit"
        /\ Len(c.prompt.s) = 301
        /\ Len(c.result.report.prompt) = 303

\* C10: at every return of edit_image, whether the remote call succeeded or
\* raised and whether or not a later open failed, every source-image stream
\* and the mask stream opened during the invocation has been closed.
C10_StreamsClosed ==
    \A inv \in Invocations :
        LET c == calls[inv] IN
        (c.op = "edit" /\ c.pc = "done") =>
            \A j \in 1..Len(c.opened) : c.opened[j].closed

\* C11: concurrent invocations are independent on the shared output
\* directory.  In any interleaving of invocations of the same operation no
\* two of them write to the same file path, so none overwrites an image
\* another has saved, and every path a successful invocation returned still
\* holds that invocation's image.
Saved(c) == {c.image_paths[k] : k \in 1..Len(c.image_paths)}

C11_NoSharedPath ==
    /\ \A a, b \in Invocations :
          (a # b /\ calls[a].op = calls[b].op) =>
              Saved(calls[a]) \cap Saved(calls[b]) = {}
    /\ \A inv \in Invocations :
          LET c == calls[inv] IN
          Succeeded(c) =>
              \A k \in 1..Len(c.result.paths) :
                  /\ c.result.paths[k] \in DOMAIN files
                  /\ files[c.result.paths[k]] = <<inv, k>>

\* C12: an invocation of generate_image or edit_image calls the remote
\* service at most once.  A remote failure ends the invocation: it returns
\* ([], error-report) with no second remote call, and neither creates the
\* output directory nor writes any file.
C12_SingleAttempt ==
    \A inv \in Invocations :
        LET c == calls[inv] IN
        /\ c.remote_calls <= 1
        /\ c.exc = "APIError" =>
              /\ c.remote_calls = 1
              /\ c.pc \in {"except", "done"}
              /\ dirs = {}
              /\ DOMAIN files = {}
              /\ c.pc = "done" => EmptyWithError(c)

\* edit_image has returned after its one remote call raised
C12_Witness ==
    \E inv \in Invocations :
        LET c == calls[inv] IN
        /\ Returned(c) /\ c.op = "edit"
        /\ c.exc = "APIError" /\ c.remote_calls = 1
        /\ c.result.paths = <<>> /\ dirs = {}

\* C13: when decoding or writing the k-th output image fails after images
\* 1..k-1 of the response were written, the invocation returns
\* ([], error-report), writes none of the images after k, and cleans nothing
\* up: the k-1 files already written stay on disk, with no path to them
\* returned.
\* the loop over the response's images was entered and one of its turns raised
SaveFailed(c) ==
    /\ c.exc \in {"binascii.Error", "OSError"}
    /\ c.response.kind = "response" /\ c.response.data.kind = "list"
    /\ OutputDir \in dirs

C13_PartialFilesRemain ==
    \A inv \in Invocations :
        LET c == calls[inv]
            k == Len(c.image_paths) + 1
        IN
        (c.pc = "done" /\ SaveFailed(c)) =>
            /\ EmptyWithError(c)
            /\ k <= Len(c.response.data.items)
            /\ \A j \in 1..(k - 1) :
                  /\ ExpectedPath(c, j) \in DOMAIN files
                  /\ files[ExpectedPath(c, j)] = c.response.data.items[j].bytes
            /\ \A j \in (k + 1)..Len(c.response.data.items) :
                  ExpectedPath(c, j) \notin DOMAIN files

\* the second image of a generation could not be decoded: the first file is
\* on disk and nothing is returned
C13_Witness ==
    \E inv \in Invocations :
        LET c == calls[inv] IN
        /\ Returned(c) /\ c.op = "generate" /\ c.exc = "binascii.Error"
        /\ Len(c.image_paths) = 1
        /\ c.image_paths[1] \in DOMAIN files
        /\ files[c.image_paths[1]] = <<inv, 1>>
        /\ c.result.paths = <<>>
====
